---- MODULE Spec2Model ----
(***************************************************************************)
(* Model of the QUIC header codec of quicker:                              *)
(*   HeaderParser  (src/src/utilities/parsers/header.parser.ts, 16-259)    *)
(*   PacketFactory (same file, 291-390)                                    *)
(*   Server        (src/unnamed/part_000)                                  *)
(* Buffers are sequences of bytes; byte offsets are 0-based as in the      *)
(* source, so the byte at offset o of buf is buf[o + 1].                   *)
(***************************************************************************)
EXTENDS Integers, Sequences, FiniteSets, TLC

VARIABLES
    buf,            \* HeaderParser.parse: the datagram buffer (argument buf)
    meta,           \* ghost: how the datagram was composed (never read by the parser)
    pc,             \* position inside HeaderParser.parse
    headerOffsets,  \* parse: var headerOffsets
    starts,         \* ghost: the offset each parseHeader call of this parse was given
    totalSize,      \* parse: var totalSize
    error,          \* the error parse has thrown, "none" while it has not
    frames,         \* createInitialPacket: argument frames
    connection,     \* createInitialPacket: argument connection
    fpc,            \* position of the createInitialPacket call
    initial,        \* the InitialPacket createInitialPacket returned
    inbox,          \* Server: number of datagrams still to be delivered
    spc,            \* Server: "idle" between handlers, "crashed" once an error left one
    sent,           \* Server: what server.send has been given, in order
    log             \* Server: ghost, outcome of every onMessage call, in order

vars == << buf, meta, pc, headerOffsets, starts, totalSize, error,
           frames, connection, fpc, initial, inbox, spc, sent, log >>

parserVars == << buf, meta, pc, headerOffsets, starts, totalSize, error >>
factoryVars == << frames, connection, fpc, initial >>
serverVars == << inbox, spc, sent, log >>

(***************************************************************************)
(* Node.js Buffer primitives used by the parser.                           *)
(***************************************************************************)
Min(a, b) == IF a < b THEN a ELSE b

\* buf.readUInt8(offset) throws a RangeError unless 0 <= offset < buf.length
InRange(b, offset) == offset >= 0 /\ offset < Len(b)

readUInt8(b, offset) == b[offset + 1]

\* buf.slice(start, end): both clamped to buf.length, never throws
slice(b, start, end) ==
    LET lo == Min(start, Len(b))
        hi == Min(end, Len(b))
    IN  IF hi <= lo THEN << >> ELSE [i \in 1..(hi - lo) |-> b[lo + i]]

\* Buffer.alloc(n) followed by buf.copy(target, 0, start, start + n): the
\* target is zero-filled and only the bytes that exist in buf are copied
allocCopy(b, start, n) ==
    [i \in 1..n |-> IF start + i <= Len(b) THEN b[start + i] ELSE 0]

(***************************************************************************)
(* Variable-length integer codec (VLIE), spec section 4.1.                 *)
(***************************************************************************)
Pow2(k) == CASE k = 0 -> 1 [] k = 1 -> 2 [] k = 2 -> 4 [] OTHER -> 8

RECURSIVE BigEndian(_, _, _, _)
BigEndian(b, offset, n, acc) ==
    IF n = 0 THEN acc
    ELSE BigEndian(b, offset + 1, n - 1, acc * 256 + readUInt8(b, offset))

\* VLIE.decode(buf, offset) -> {value, offset}; err when a byte is missing
VLIEdecode(b, offset) ==
    IF ~InRange(b, offset) THEN [err |-> "RangeError", value |-> 0, offset |-> offset]
    ELSE LET first == readUInt8(b, offset)
             width == Pow2(first \div 64)
         IN  IF offset + width > Len(b)
             THEN [err |-> "RangeError", value |-> 0, offset |-> offset]
             ELSE [err |-> "none",
                   value |-> BigEndian(b, offset + 1, width - 1, first % 64),
                   offset |-> offset + width]

(***************************************************************************)
(* Protocol value types and header variants.  An optional field is a       *)
(* sequence of length 0 (undefined) or 1 (set).                            *)
(***************************************************************************)
LongHeaderType_Initial == 0
LongHeaderType_Protected0RTT == 1
LongHeaderType_Handshake == 2
LongHeaderType_Retry == 3

\* the length bound ConnectionID enforces at construction
ConnectionIDLengthOk(length) == length = 0 \/ length \in 4..18

ConnectionID(bytes, length) == [bytes |-> bytes, length |-> length]

PacketNumber(bytes) == bytes

Version(bytes) == bytes

\* VersionValidation.IsVersionNegotationFlag: the version is the all-zero sentinel
IsVersionNegotationFlag(version) == \A i \in 1..Len(version) : version[i] = 0

NoConnectionID == ConnectionID(<< >>, 0)

LongHeader(type, destConnectionID, srcConnectionID, payloadLength, version, payloadLengthBuffer) ==
    [ headerType |-> "LongHeader",
      type |-> << type >>,
      destConnectionID |-> destConnectionID,
      srcConnectionID |-> << srcConnectionID >>,
      payloadLength |-> << payloadLength >>,
      version |-> << version >>,
      payloadLengthBuffer |-> payloadLengthBuffer,
      truncatedPacketNumber |-> << >>,
      initialTokens |-> << >>,
      keyPhaseBit |-> FALSE,
      spinBit |-> FALSE,
      parsedBuffer |-> << >> ]

ShortHeader(destConnectionID, keyPhaseBit, spinBit) ==
    [ headerType |-> "ShortHeader",
      type |-> << >>,
      destConnectionID |-> destConnectionID,
      srcConnectionID |-> << >>,
      payloadLength |-> << >>,
      version |-> << >>,
      payloadLengthBuffer |-> << >>,
      truncatedPacketNumber |-> << >>,
      initialTokens |-> << >>,
      keyPhaseBit |-> keyPhaseBit,
      spinBit |-> spinBit,
      parsedBuffer |-> << >> ]

VersionNegotiationHeader(destConnectionID, srcConnectionID) ==
    [ headerType |-> "VersionNegotiationHeader",
      type |-> << >>,
      destConnectionID |-> destConnectionID,
      srcConnectionID |-> << srcConnectionID >>,
      payloadLength |-> << >>,
      version |-> << >>,
      payloadLengthBuffer |-> << >>,
      truncatedPacketNumber |-> << >>,
      initialTokens |-> << >>,
      keyPhaseBit |-> FALSE,
      spinBit |-> FALSE,
      parsedBuffer |-> << >> ]

setTruncatedPacketNumber(header, pn) == [header EXCEPT !.truncatedPacketNumber = << pn >>]

setInitialTokens(header, tokens) == [header EXCEPT !.initialTokens = << tokens >>]

setParsedBuffer(header, parsedBuffer) == [header EXCEPT !.parsedBuffer = << parsedBuffer >>]

NoHeader == VersionNegotiationHeader(NoConnectionID, NoConnectionID)

\* what a parse function hands back: a HeaderOffset, or the error it threw
Returned(header, offset) == [err |-> "none", header |-> header, offset |-> offset]

Thrown(e) == [err |-> e, header |-> NoHeader, offset |-> 0]

(***************************************************************************)
(* HeaderParser.parseVersionNegotiationHeader (lines 180-198)              *)
(***************************************************************************)
\* lines 182-185: a nibble code is 0 or the length minus 3
vnConnectionIDLength(code) == IF code = 0 THEN code ELSE code + 3

parseVersionNegotiationHeader(b, offset, type) ==
    IF ~InRange(b, offset) THEN Thrown("RangeError")
    ELSE
      LET conLengths == readUInt8(b, offset)
          o1 == offset + 1
          destLength == vnConnectionIDLength(conLengths \div 16)
          srcLength == vnConnectionIDLength(conLengths % 16)
          destConnectionID == ConnectionID(slice(b, o1, o1 + destLength), destLength)
          o2 == o1 + destLength
          srcConnectionID == ConnectionID(slice(b, o2, o2 + srcLength), srcLength)
          o3 == o2 + srcLength
      IN  IF ~ConnectionIDLengthOk(destLength) \/ ~ConnectionIDLengthOk(srcLength)
          THEN Thrown("ConnectionIDError")
          ELSE Returned(VersionNegotiationHeader(destConnectionID, srcConnectionID), o3)

(***************************************************************************)
(* HeaderParser.parseLongHeader (lines 95-178)                             *)
(***************************************************************************)
\* lines 123-126: a nibble code is 0 or the length minus 3
\* the nibble decode adding the minimum length 4 instead of 3
longConnectionIDLength_plusFour(code) == IF code = 0 THEN code ELSE code + 4

longConnectionIDLength(code) == IF code = 0 THEN code ELSE code + 3

\* line 97 and 99: (byte - 0xC0) >> 4, an arithmetic shift of a possibly
\* negative number
longHeaderTypeOf(byte) == (byte - 192) \div 16

\* line 97, 109 and 110: ((byte - 0xC0) & 0b11) + 1 in two's complement
longHeaderPnLength(byte) == ((byte - 192) % 4) + 1

\* lines 119-177: what follows the version of a header that is not a
\* version negotiation
parseLongHeaderFields(b, startOffset, offset, type, pnLength, version) ==
    IF ~InRange(b, offset) THEN Thrown("RangeError")
    ELSE
      LET conLengths == readUInt8(b, offset)
          o1 == offset + 1
          dcil == longConnectionIDLength(conLengths \div 16)
          scil == longConnectionIDLength(conLengths % 16)
          destConnectionID == ConnectionID(slice(b, o1, o1 + dcil), dcil)
          o2 == o1 + dcil
          srcConnectionID == ConnectionID(slice(b, o2, o2 + scil), scil)
          o3 == o2 + scil
          isInitial == type = LongHeaderType_Initial
          tokenLengthV == IF isInitial THEN VLIEdecode(b, o3)
                          ELSE [err |-> "none", value |-> 0, offset |-> o3]
          hasTokens == isInitial /\ tokenLengthV.value > 0
          tokens == allocCopy(b, tokenLengthV.offset, tokenLengthV.value)
          o4 == IF hasTokens THEN tokenLengthV.offset + tokenLengthV.value
                ELSE tokenLengthV.offset
          payloadLengthV == VLIEdecode(b, o4)
          payloadLength == payloadLengthV.value
          payloadLengthBuffer == allocCopy(b, o4, payloadLengthV.offset - o4)
          o5 == payloadLengthV.offset
          truncatedPacketNumber == PacketNumber(slice(b, o5, o5 + pnLength))
          o6 == o5 + pnLength
          header0 == LongHeader(type, destConnectionID, srcConnectionID,
                                payloadLength, version, payloadLengthBuffer)
          header1 == setTruncatedPacketNumber(header0, truncatedPacketNumber)
          header2 == IF hasTokens THEN setInitialTokens(header1, tokens) ELSE header1
          parsedBuffer == slice(b, startOffset, o6)
          header == setParsedBuffer(header2, parsedBuffer)
      IN  IF ~ConnectionIDLengthOk(dcil) \/ ~ConnectionIDLengthOk(scil)
          THEN Thrown("ConnectionIDError")
          ELSE IF tokenLengthV.err # "none" THEN Thrown(tokenLengthV.err)
          ELSE IF payloadLengthV.err # "none" THEN Thrown(payloadLengthV.err)
          ELSE Returned(header, o6)

parseLongHeader(b, offset) ==
    IF ~InRange(b, offset) THEN Thrown("RangeError")
    ELSE
      LET startOffset == offset
          byte == readUInt8(b, offset)
          o1 == offset + 1
          type == longHeaderTypeOf(byte)
          pnLength == longHeaderPnLength(byte)
          version == Version(slice(b, o1, o1 + 4))
          o2 == o1 + 4
      IN  IF type = LongHeaderType_Retry THEN Thrown("PROTOCOL_VIOLATION")
          ELSE IF IsVersionNegotationFlag(version)
               THEN parseVersionNegotiationHeader(b, o2, type)
          ELSE parseLongHeaderFields(b, startOffset, o2, type, pnLength, version)

(***************************************************************************)
(* HeaderParser.parseShortHeader (lines 213-258)                           *)
(***************************************************************************)
\* bit of weight w (a power of two) of x in two's complement: (x & w) === w
BitSet(x, w) == (x \div w) % 2 = 1

\* parseShortHeader reading the connection ID after its length byte
\* (readUInt8(offset++) at line 241)
parseShortHeader_skipLengthByte(b, offset) ==
    IF ~InRange(b, offset) THEN Thrown("RangeError")
    ELSE
      LET startOffset == offset
          firstByte == readUInt8(b, offset) - 64
          o1 == offset + 1
          pnLength == (firstByte % 4) + 1
      IN  IF ~InRange(b, o1) THEN Thrown("RangeError")
          ELSE
            LET dcil == readUInt8(b, o1)
                o1b == o1 + 1
                destConnectionID == ConnectionID(allocCopy(b, o1b, dcil), dcil)
                o2 == o1b + dcil
                truncatedPacketNumber == PacketNumber(slice(b, o2, o2 + pnLength))
                o3 == o2 + pnLength
                header0 == ShortHeader(destConnectionID, BitSet(firstByte, 4), BitSet(firstByte, 32))
                header1 == setTruncatedPacketNumber(header0, truncatedPacketNumber)
                header == setParsedBuffer(header1, slice(b, startOffset, o3))
            IN  IF ~ConnectionIDLengthOk(dcil) THEN Thrown("ConnectionIDError")
                ELSE Returned(header, o3)

parseShortHeader(b, offset) ==
    IF ~InRange(b, offset) THEN Thrown("RangeError")
    ELSE
      LET startOffset == offset
          firstByte == readUInt8(b, offset) - 64
          o1 == offset + 1
          spinBit == BitSet(firstByte, 32)
          keyPhaseBit == BitSet(firstByte, 4)
          pnLength == (firstByte % 4) + 1
      IN  IF ~InRange(b, o1) THEN Thrown("RangeError")
          ELSE
            LET dcil == readUInt8(b, o1)
                destConIDBuffer == allocCopy(b, o1, dcil)
                destConnectionID == ConnectionID(destConIDBuffer, dcil)
                o2 == o1 + dcil
                truncatedPacketNumber == PacketNumber(slice(b, o2, o2 + pnLength))
                o3 == o2 + pnLength
                header0 == ShortHeader(destConnectionID, keyPhaseBit, spinBit)
                header1 == setTruncatedPacketNumber(header0, truncatedPacketNumber)
                parsedBuffer == slice(b, startOffset, o3)
                header == setParsedBuffer(header1, parsedBuffer)
            IN  IF ~ConnectionIDLengthOk(dcil) THEN Thrown("ConnectionIDError")
                ELSE Returned(header, o3)

(***************************************************************************)
(* HeaderParser.parseHeader (lines 64-77)                                  *)
(***************************************************************************)
parseHeader(b, offset) ==
    IF ~InRange(b, offset) THEN Thrown("RangeError")
    ELSE IF readUInt8(b, offset) >= 128 THEN parseLongHeader(b, offset)
    ELSE parseShortHeader(b, offset)

(***************************************************************************)
(* The datagrams parse is given.  A datagram is composed from packet       *)
(* descriptors laid out as the wire-layout comments of the parser say      *)
(* (lines 80-94 and 200-212), optionally followed by trailing bytes or     *)
(* cut short at its end; meta records the composition.                     *)
(***************************************************************************)
MaxPayload == 2     \* frame bytes after the packet number of a generated packet
MaxCut == 2         \* bytes cut off the end of a generated datagram
MaxTrail == 3       \* bytes following the last generated packet
MaxRaw == 3         \* length of the unstructured buffers

Fill(n, byte) == [i \in 1..n |-> byte]

\* bytes of a connection ID whose length nibble is code (0, or 4..18 as code + 3)
WireLength(code) == IF code = 0 THEN 0 ELSE code + 3

\* the variable-length integer of a value below 2^14, shortest form
VLIEencode(v) == IF v < 64 THEN << v >> ELSE << 64 + (v \div 256), v % 256 >>

NonZeroVersion == << 255, 0, 0, 20 >>

\* 1 1 T T R R P P | version | DCIL SCIL | DCID | SCID | [token] | length | PN | payload
LongPacket(d) ==
    << (IF d.fixed THEN 192 ELSE 128) + 16 * d.tbits + (d.pn - 1) >>
    \o NonZeroVersion
    \o << d.conLengths >>
    \o Fill(WireLength(d.conLengths \div 16), 209)
    \o Fill(WireLength(d.conLengths % 16), 225)
    \o (IF d.tbits = LongHeaderType_Initial
        THEN VLIEencode(d.tokenLen) \o Fill(d.tokenLen, 7) ELSE << >>)
    \o VLIEencode(d.pn + d.extra)
    \o Fill(d.pn, 1)
    \o Fill(d.extra, 6)

\* a long header whose length field announces d.announced whatever follows it
LongPacketAnnouncing(d) ==
    << 192 + 16 * d.tbits + (d.pn - 1) >>
    \o NonZeroVersion
    \o << d.conLengths >>
    \o (IF d.tbits = LongHeaderType_Initial THEN VLIEencode(0) ELSE << >>)
    \o VLIEencode(d.announced)
    \o Fill(d.pn, 1)
    \o Fill(d.extra, 6)

\* 1 x T T x x x x | 00000000 | DCIL SCIL | DCID | SCID | supported versions
VersionNegotiationPacket(d) ==
    << (IF d.fixed THEN 192 ELSE 128) + 16 * d.tbits + (d.pn - 1) >>
    \o << 0, 0, 0, 0 >>
    \o << d.conLengths >>
    \o Fill(WireLength(d.conLengths \div 16), 209)
    \o Fill(WireLength(d.conLengths % 16), 225)
    \o Fill(d.extra, 255)

\* 0 1 S R R K P P | length byte | connection ID | PN | payload.  The
\* connection ID either follows its length byte (L more bytes) or begins
\* with it (self: L - 1 more bytes).
ShortPacket(d) ==
    << 64 + d.bits + (d.pn - 1), d.L >>
    \o Fill(IF d.self /\ d.L > 0 THEN d.L - 1 ELSE d.L, 209)
    \o Fill(d.pn, 1)
    \o Fill(d.extra, 6)

PacketBytes(d) ==
    CASE d.form = "long" -> LongPacket(d)
      [] d.form = "vn" -> VersionNegotiationPacket(d)
      [] d.form = "announce" -> LongPacketAnnouncing(d)
      [] OTHER -> ShortPacket(d)

RECURSIVE Concat(_)
Concat(pkts) == IF pkts = << >> THEN << >> ELSE PacketBytes(Head(pkts)) \o Concat(Tail(pkts))

Datagram(m) ==
    LET full == (IF m.family = "raw" THEN m.raw ELSE Concat(m.pkts)) \o Fill(m.trailing, 65)
    IN  SubSeq(full, 1, Len(full) - m.cut)

FirstLong ==
    { [form |-> "long", tbits |-> t, fixed |-> f, pn |-> p, conLengths |-> c,
       tokenLen |-> 0, extra |-> e] :
        t \in 0..3, f \in BOOLEAN, p \in 1..4, c \in {0, 64}, e \in 0..MaxPayload }
    \cup
    { [form |-> "long", tbits |-> LongHeaderType_Initial, fixed |-> f, pn |-> p, conLengths |-> 0,
       tokenLen |-> 2, extra |-> e] :
        f \in BOOLEAN, p \in 1..4, e \in 0..MaxPayload }

SecondLong ==
    { [form |-> "long", tbits |-> t, fixed |-> TRUE, pn |-> p, conLengths |-> 0,
       tokenLen |-> 0, extra |-> e] :
        t \in {0, 2, 3}, p \in {1, 4}, e \in {0, MaxPayload} }

\* long headers announcing less or more than the bytes that follow them
Announcing ==
    { [form |-> "announce", tbits |-> t, pn |-> p, conLengths |-> 0, announced |-> a,
       extra |-> e] :
        t \in {LongHeaderType_Initial, LongHeaderType_Handshake}, p \in {1, 4},
        a \in {0, 1, 3, 200}, e \in {0, MaxPayload} }

VersionNegotiations ==
    { [form |-> "vn", tbits |-> t, fixed |-> f, pn |-> 1, conLengths |-> c, extra |-> e] :
        t \in 0..3, f \in BOOLEAN, c \in {0, 81}, e \in {0, 4} }

ShortLengths == {0, 1, 4, 5, 18, 19}

ShortPackets(lengths, pns) ==
    { [form |-> "short", bits |-> b, pn |-> p, L |-> l, self |-> n, extra |-> e] :
        b \in {0, 36}, p \in pns, l \in lengths, n \in BOOLEAN, e \in {0, MaxPayload} }

Tails == { [trailing |-> 0, cut |-> k] : k \in 0..MaxCut } \cup { [trailing |-> MaxTrail, cut |-> 0] }

Compound(pkts, tail) ==
    [family |-> "compound", pkts |-> pkts, raw |-> << >>,
     trailing |-> tail.trailing, cut |-> tail.cut]

\* every connection-ID length byte once, in a long header and in a version negotiation
Sweep ==
    { Compound(<< [form |-> "long", tbits |-> 2, fixed |-> TRUE, pn |-> 1,
                   conLengths |-> c, tokenLen |-> 0, extra |-> 0] >>, [trailing |-> 0, cut |-> 0]) :
        c \in 0..255 }
    \cup
    { Compound(<< [form |-> "vn", tbits |-> 0, fixed |-> TRUE, pn |-> 1,
                   conLengths |-> c, extra |-> 0] >>, [trailing |-> 0, cut |-> 0]) :
        c \in 0..255 }

RawBytes == {0, 67, 128, 192, 240}

RECURSIVE RawBuffers(_)
RawBuffers(n) ==
    IF n = 0 THEN { << >> }
    ELSE LET shorter == RawBuffers(n - 1)
         IN  shorter \cup { Append(r, x) : r \in { q \in shorter : Len(q) = n - 1 }, x \in RawBytes }

Metas ==
    { Compound(<< a >>, t) : a \in FirstLong, t \in Tails }
    \cup { Compound(<< a, b >>, t) :
             a \in FirstLong, b \in SecondLong \cup ShortPackets({4}, {1, 4}), t \in Tails }
    \cup { Compound(<< a >>, t) : a \in VersionNegotiations, t \in Tails }
    \cup { Compound(<< a >>, t) : a \in Announcing, t \in Tails }
    \cup { Compound(<< a, b >>, t) : a \in Announcing, b \in SecondLong, t \in Tails }
    \cup { Compound(<< a >>, t) : a \in ShortPackets(ShortLengths, 1..4), t \in Tails }
    \cup Sweep
    \cup { [family |-> "raw", pkts |-> << >>, raw |-> r, trailing |-> 0, cut |-> 0] :
             r \in RawBuffers(MaxRaw) }

(***************************************************************************)
(* HeaderParser.parse (lines 23-62), one action per step of the function.  *)
(***************************************************************************)
HeaderOffset(r) == [header |-> r.header, offset |-> r.offset]

\* line 36: the loop condition on the header parsed last
loopCondition(headerOffset) ==
    /\ headerOffset.header.headerType = "LongHeader"
    /\ headerOffset.header.payloadLength # << >>

\* lines 41-42: totalSize after the header parsed last
nextTotalSize(headerOffset, total) ==
    LET payloadLength == headerOffset.header.payloadLength[1]
        headerSize == headerOffset.offset - total
    IN  total + payloadLength + headerSize

\* a parser that steps back over the smallest long header (8 bytes) instead
nextHeaderStart_minusHeader(total) == total - 8

\* line 51: where the next header is parsed
nextHeaderStart(total) == total - 4

Last(seq) == seq[Len(seq)]

\* lines 24-27
ParseFirst ==
    /\ pc = "parse"
    /\ LET r == parseHeader(buf, 0)
       IN  /\ starts' = << 0 >>
           /\ IF r.err = "none"
              THEN /\ headerOffsets' = << HeaderOffset(r) >>
                   /\ pc' = "loop"
                   /\ error' = error
              ELSE /\ headerOffsets' = headerOffsets
                   /\ pc' = "thrown"
                   /\ error' = r.err
    /\ UNCHANGED << buf, meta, totalSize, factoryVars, serverVars >>

\* lines 36-52: an iteration that parses another header
LoopParse ==
    /\ pc = "loop"
    /\ loopCondition(Last(headerOffsets))
    /\ LET total == nextTotalSize(Last(headerOffsets), totalSize)
           r == parseHeader(buf, nextHeaderStart(total))
       IN  /\ total < Len(buf)
           /\ totalSize' = total
           /\ starts' = Append(starts, nextHeaderStart(total))
           /\ IF r.err = "none"
              THEN /\ headerOffsets' = Append(headerOffsets, HeaderOffset(r))
                   /\ pc' = "loop"
                   /\ error' = error
              ELSE /\ headerOffsets' = headerOffsets
                   /\ pc' = "thrown"
                   /\ error' = r.err
    /\ UNCHANGED << buf, meta, factoryVars, serverVars >>

\* lines 36-43 and 53-55: the iteration that breaks out of the loop
LoopBreak ==
    /\ pc = "loop"
    /\ loopCondition(Last(headerOffsets))
    /\ LET total == nextTotalSize(Last(headerOffsets), totalSize)
       IN  /\ ~(total < Len(buf))
           /\ totalSize' = total
    /\ pc' = "returned"
    /\ UNCHANGED << buf, meta, headerOffsets, starts, error, factoryVars, serverVars >>

\* lines 36 and 61: the loop condition fails, parse returns
LoopExit ==
    /\ pc = "loop"
    /\ ~loopCondition(Last(headerOffsets))
    /\ pc' = "returned"
    /\ UNCHANGED << buf, meta, headerOffsets, starts, totalSize, error, factoryVars, serverVars >>

FactoryIdle ==
    /\ frames = << >>
    /\ connection = [destConnectionID |-> << >>, initialDestConnectionID |-> 0,
                     srcConnectionID |-> 0]
    /\ fpc = "idle"
    /\ initial = << >>

ServerIdle ==
    /\ inbox = 0
    /\ spc = "idle"
    /\ sent = << >>
    /\ log = << >>

ParserIdle ==
    /\ buf = << >>
    /\ meta = [family |-> "raw", pkts |-> << >>, raw |-> << >>, trailing |-> 0, cut |-> 0]
    /\ pc = "idle"
    /\ headerOffsets = << >>
    /\ starts = << >>
    /\ totalSize = 0
    /\ error = "none"

Init ==
    /\ meta \in Metas
    /\ buf = Datagram(meta)
    /\ pc = "parse"
    /\ headerOffsets = << >>
    /\ starts = << >>
    /\ totalSize = 0
    /\ error = "none"
    /\ FactoryIdle
    /\ ServerIdle

Next == ParseFirst \/ LoopParse \/ LoopBreak \/ LoopExit

Spec == Init /\ [][Next]_vars

(***************************************************************************)
(* Properties of HeaderParser.parse                                        *)
(***************************************************************************)
Finished == pc \in {"returned", "thrown"}

ByteAt(offset) == buf[offset + 1]

\* the datagram is exactly the generated packets: nothing cut, nothing appended
Whole == meta.family = "compound" /\ meta.cut = 0 /\ meta.trailing = 0

\* a long-header packet as the layout defines it: marker bits 11, not Retry
ProperLong(d) == d.form = "long" /\ d.fixed /\ d.tbits # LongHeaderType_Retry

TwoLongPackets ==
    /\ Whole
    /\ Len(meta.pkts) = 2
    /\ ProperLong(meta.pkts[1])
    /\ ProperLong(meta.pkts[2])

\* C1: a datagram of two concatenated long-header packets (non-Retry,
\* non-zero version, packet-number length 1..4) parses to exactly two
\* entries, the second header parsed at the first packet's end, which is
\* first.offset - pnLength + payloadLength.
C1_TwoLongHeadersSplit ==
    (Finished /\ TwoLongPackets) =>
        /\ pc = "returned"
        /\ Len(headerOffsets) = 2
        /\ starts[2] = headerOffsets[1].offset - meta.pkts[1].pn
                         + headerOffsets[1].header.payloadLength[1]

\* the two type bits of the byte a header starts with
TypeBits(byte) == (byte \div 16) % 4

\* C2: whenever a header is parsed at a position whose first byte has the
\* most significant bit set and type bits Retry, parse raises
\* PROTOCOL_VIOLATION and returns nothing.
C2_RetryAlwaysRejected ==
    \A i \in 1..Len(starts) :
        ( /\ InRange(buf, starts[i])
          /\ ByteAt(starts[i]) >= 128
          /\ TypeBits(ByteAt(starts[i])) = LongHeaderType_Retry )
        => (pc = "thrown" /\ error = "PROTOCOL_VIOLATION")

\* a long header with an all-zero version and its connection-ID length byte
ZeroVersionAt(s) ==
    /\ InRange(buf, s)
    /\ ByteAt(s) >= 128
    /\ s + 6 <= Len(buf)
    /\ \A k \in 1..4 : ByteAt(s + k) = 0

\* C3: a long header whose version is all zero is parsed as a version
\* negotiation for every value of the type bits, and the header returned
\* has no packet number and no payload length.
C3_ZeroVersionAlwaysNegotiation ==
    \A i \in 1..Len(starts) :
        ZeroVersionAt(starts[i]) =>
            /\ i <= Len(headerOffsets)
            /\ headerOffsets[i].header.headerType = "VersionNegotiationHeader"
            /\ headerOffsets[i].header.truncatedPacketNumber = << >>
            /\ headerOffsets[i].header.payloadLength = << >>

\* C4: every HeaderOffset parse returns lies inside the buffer (a field
\* reaching past the end raises an error instead).
C4_OffsetsInsideBuffer ==
    pc = "returned" => \A i \in 1..Len(headerOffsets) : headerOffsets[i].offset <= Len(buf)

\* C5: every header parse returns, of whatever variant, carries a raw span
\* equal to the buffer's bytes from the header's start to the returned offset.
C5_SpanIsConsumedBytes ==
    pc = "returned" =>
        \A i \in 1..Len(headerOffsets) :
            LET h == headerOffsets[i].header
                n == headerOffsets[i].offset - starts[i]
            IN  /\ h.parsedBuffer # << >>
                /\ Len(h.parsedBuffer[1]) = n
                /\ \A k \in 1..n : h.parsedBuffer[1][k] = ByteAt(starts[i] + k - 1)

LongThenShort ==
    /\ meta.family = "compound"
    /\ meta.cut = 0
    /\ Len(meta.pkts) = 2
    /\ ProperLong(meta.pkts[1])
    /\ meta.pkts[2].form = "short"

\* C6: a long-header packet followed by a short-header packet parses to
\* exactly two entries, the long header then the short header at the long
\* packet's end, whatever follows the short header.
C6_ShortHeaderIsLast ==
    (Finished /\ LongThenShort) =>
        /\ pc = "returned"
        /\ Len(headerOffsets) = 2
        /\ headerOffsets[1].header.headerType = "LongHeader"
        /\ headerOffsets[2].header.headerType = "ShortHeader"
        /\ starts = << 0, Len(PacketBytes(meta.pkts[1])) >>

\* the short header parsed as entry i: its start, length byte and
\* packet-number length
ShortStart(i) == starts[i]
ShortL(i) == ByteAt(starts[i] + 1)
ShortN(i) == (ByteAt(starts[i]) % 4) + 1

IsShort(i) ==
    /\ i <= Len(headerOffsets)
    /\ headerOffsets[i].header.headerType = "ShortHeader"
    /\ ShortL(i) >= 1

\* C8 as stated: for a short header at s with length byte L >= 1 and n
\* packet-number bytes, the connection ID is the L bytes after the length
\* byte, the packet number the n bytes after those, the offset s + 2 + L + n.
C8_ShortHeaderLengthPrefixed ==
    \A i \in 1..Len(starts) :
        IsShort(i) =>
            LET h == headerOffsets[i].header
                s == ShortStart(i)
                L == ShortL(i)
                n == ShortN(i)
            IN  /\ h.destConnectionID = ConnectionID(allocCopy(buf, s + 2, L), L)
                /\ h.truncatedPacketNumber = << slice(buf, s + 2 + L, s + 2 + L + n) >>
                /\ headerOffsets[i].offset = s + 2 + L + n

\* C8 amended: for a short header at s that parseShortHeader returns, with
\* length byte L >= 1 and n packet-number bytes, the connection ID has
\* length L and is the L bytes that begin with the length byte itself
\* (offsets s+1 .. s+L, zero where the buffer has ended), the packet number
\* is the bytes the buffer holds at offsets s+1+L .. s+L+n, and the offset
\* returned is s + 1 + L + n.
C8_ShortHeaderSelfCountingLength ==
    \A i \in 1..Len(starts) :
        IsShort(i) =>
            LET h == headerOffsets[i].header
                s == ShortStart(i)
                L == ShortL(i)
                n == ShortN(i)
            IN  /\ h.destConnectionID.length = L
                /\ Len(h.destConnectionID.bytes) = L
                /\ \A k \in 1..L :
                     h.destConnectionID.bytes[k] =
                        IF s + k < Len(buf) THEN ByteAt(s + k) ELSE 0
                /\ h.destConnectionID.bytes[1] = L
                /\ Len(h.truncatedPacketNumber) = 1
                /\ Len(h.truncatedPacketNumber[1]) = Min(n, Len(buf) - Min(s + 1 + L, Len(buf)))
                /\ \A k \in 1..Len(h.truncatedPacketNumber[1]) :
                     h.truncatedPacketNumber[1][k] = ByteAt(s + L + k)
                /\ headerOffsets[i].offset = s + 1 + L + n

\* a short header that follows a long one, connection ID and packet number
\* inside the buffer, has been returned
C8_Witness ==
    /\ pc = "returned"
    /\ Len(headerOffsets) = 2
    /\ IsShort(2)
    /\ ShortStart(2) > 0
    /\ ShortN(2) = 4
    /\ headerOffsets[2].offset <= Len(buf)

\* the connection-ID length a nibble code stands for
CodeLength(c) == IF c = 0 THEN 0 ELSE c + 3

\* bytes of the Initial token field (length varint and token) of entry i
TokenField(i, at) ==
    IF headerOffsets[i].header.type = << LongHeaderType_Initial >>
    THEN Pow2(ByteAt(at) \div 64)
         + (IF headerOffsets[i].header.initialTokens = << >> THEN 0
            ELSE Len(headerOffsets[i].header.initialTokens[1]))
    ELSE 0

\* C10: in the long-header parse and in the version-negotiation parse, for
\* the destination and the source nibble c of the length byte, the decoded
\* length is 0 when c = 0 and c + 3 otherwise, so 0 or in 4..18, and the
\* offset moves over the two connection IDs by the sum of the two lengths.
C10_ConnectionIDLengths ==
    \A i \in 1..Len(headerOffsets) :
        LET h == headerOffsets[i].header
            s == starts[i]
            c == ByteAt(s + 5)
            dl == CodeLength(c \div 16)
            sl == CodeLength(c % 16)
            after == s + 6 + dl + sl
        IN  h.headerType # "ShortHeader" =>
              /\ h.destConnectionID.length = dl
              /\ h.srcConnectionID[1].length = sl
              /\ h.destConnectionID.length \in {0} \cup 4..18
              /\ h.srcConnectionID[1].length \in {0} \cup 4..18
              /\ h.destConnectionID.bytes = slice(buf, s + 6, s + 6 + dl)
              /\ h.srcConnectionID[1].bytes = slice(buf, s + 6 + dl, after)
              /\ h.headerType = "VersionNegotiationHeader" => headerOffsets[i].offset = after
              /\ h.headerType = "LongHeader" =>
                   headerOffsets[i].offset =
                      after + TokenField(i, after) + Len(h.payloadLengthBuffer)
                        + (ByteAt(s) % 4) + 1

\* a long header with destination code 15 and source code 1 has been returned
C10_Witness ==
    /\ pc = "returned"
    /\ headerOffsets[1].header.headerType = "LongHeader"
    /\ ByteAt(5) = 241
    /\ headerOffsets[1].header.destConnectionID.length = 18
    /\ headerOffsets[1].header.srcConnectionID[1].length = 4

(***************************************************************************)
(* PacketFactory.createInitialPacket (lines 319-344).  A frame is its type *)
(* and its serialized size; a connection ID is its length.                 *)
(***************************************************************************)
INITIAL_MIN_SIZE == 1280
DEFAULT_AEAD_LENGTH == 16

MaxFrames == 2      \* frames handed to createInitialPacket

\* bytes of the variable-length integer of v
VLIEsize(v) == IF v < 64 THEN 1 ELSE IF v < 16384 THEN 2 ELSE IF v < 1073741824 THEN 4 ELSE 8

\* new LongHeader(type, dst, src, packetNumber, payloadLength, version), line 324
FactoryLongHeader(type, destConnectionID, srcConnectionID, packetNumber, payloadLength) ==
    [ type |-> type, destConnectionID |-> destConnectionID,
      srcConnectionID |-> srcConnectionID, packetNumber |-> packetNumber,
      payloadLength |-> payloadLength ]

\* serialized size of a long header: first byte, version, length byte,
\* connection IDs, token length (Initial), payload length, 4-byte packet number
headerSize(header) ==
    1 + 4 + 1 + header.destConnectionID + header.srcConnectionID
      + (IF header.type = LongHeaderType_Initial THEN 1 ELSE 0)
      + VLIEsize(header.payloadLength) + 4

RECURSIVE getFrameSizes(_)
getFrameSizes(fs) == IF fs = << >> THEN 0 ELSE Head(fs).size + getFrameSizes(Tail(fs))

InitialPacket(header, fs) == [header |-> header, frames |-> fs]

getSize(packet) == headerSize(packet.header) + getFrameSizes(packet.frames)

PaddingFrame(length) == [type |-> "PADDING", size |-> length]

\* lines 322-343; "TypeError" is what frames[0].getType() throws at line 331
\* when there is no first frame
createInitialPacket(conn, fs) ==
    LET dstConnectionID == IF conn.destConnectionID = << >>
                           THEN conn.initialDestConnectionID
                           ELSE conn.destConnectionID[1]
        header == FactoryLongHeader(LongHeaderType_Initial, dstConnectionID,
                                    conn.srcConnectionID, 0, 0)
        packet == InitialPacket(header, fs)
        size == getSize(packet)
        padded == IF size < INITIAL_MIN_SIZE
                  THEN Append(fs, PaddingFrame(INITIAL_MIN_SIZE - size))
                  ELSE fs
        payloadLength == getFrameSizes(padded) + DEFAULT_AEAD_LENGTH
    IN  IF fs = << >> THEN [err |-> "TypeError", packet |-> << >>]
        ELSE [err |-> "none",
              packet |-> << InitialPacket([header EXCEPT !.payloadLength = payloadLength],
                                          padded) >>]

CreateInitialPacket ==
    /\ fpc = "call"
    /\ LET r == createInitialPacket(connection, frames)
       IN  /\ initial' = r.packet
           /\ fpc' = IF r.err = "none" THEN "returned" ELSE "thrown"
    /\ UNCHANGED << frames, connection, parserVars, serverVars >>

FrameTypes == {"CRYPTO", "STREAM"}
EdgeSizes == 1255..1270

RECURSIVE FrameSeqs(_, _)
FrameSeqs(n, sizes) ==
    IF n = 0 THEN { << >> }
    ELSE LET shorter == FrameSeqs(n - 1, sizes)
         IN  shorter \cup { Append(q, [type |-> t, size |-> z]) :
                              q \in { r \in shorter : Len(r) = n - 1 },
                              t \in FrameTypes, z \in sizes }

Connections ==
    { [destConnectionID |-> d, initialDestConnectionID |-> 8, srcConnectionID |-> c] :
        d \in { << >>, << 4 >>, << 18 >> }, c \in {0, 4} }

InitFactory ==
    /\ frames \in FrameSeqs(MaxFrames, {10, 1300})
                    \cup FrameSeqs(1, EdgeSizes)
    /\ connection \in Connections
    /\ fpc = "call"
    /\ initial = << >>
    /\ ParserIdle
    /\ ServerIdle

NextFactory == CreateInitialPacket

SpecFactory == InitFactory /\ [][NextFactory]_vars

\* C7: createInitialPacket returns for every frame sequence; when the size
\* before padding is below INITIAL_MIN_SIZE it has appended exactly one
\* padding frame and the size of the packet returned is INITIAL_MIN_SIZE,
\* otherwise it has appended nothing.
C7_InitialPaddedToMinimum ==
    fpc \in {"returned", "thrown"} =>
        /\ fpc = "returned"
        /\ LET dst == IF connection.destConnectionID = << >>
                      THEN connection.initialDestConnectionID
                      ELSE connection.destConnectionID[1]
               before == getSize(InitialPacket(
                             FactoryLongHeader(LongHeaderType_Initial, dst,
                                               connection.srcConnectionID, 0, 0), frames))
               got == initial[1]
           IN  IF before < INITIAL_MIN_SIZE
               THEN /\ Len(got.frames) = Len(frames) + 1
                    /\ SubSeq(got.frames, 1, Len(frames)) = frames
                    /\ Last(got.frames).type = "PADDING"
                    /\ getSize(got) = INITIAL_MIN_SIZE
               ELSE got.frames = frames

(***************************************************************************)
(* Server.onMessage (part_000, lines 35-54).  packetParser.parse either    *)
(* throws or returns a packet, whose header has a connection ID or not.    *)
(***************************************************************************)
MaxDatagrams == 3   \* datagrams delivered to the server
Peers == {1, 2}

\* onMessage with lines 37-43 not catching what parse throws
onMessage_noCatch(parse, hasConnectionID) ==
    [ send |-> parse = "packet" /\ hasConnectionID, escaped |-> parse = "error" ]

\* the handler: whether it called server.send, whether an error left it
onMessage(parse, hasConnectionID) ==
    IF parse = "error"
    THEN [send |-> FALSE, escaped |-> FALSE]
    ELSE [send |-> hasConnectionID, escaped |-> FALSE]

OnMessage ==
    /\ spc = "idle"
    /\ inbox > 0
    /\ \E rinfo \in Peers, parse \in {"error", "packet"}, hasConnectionID \in BOOLEAN :
         LET r == onMessage(parse, hasConnectionID)
             n == Len(log) + 1
         IN  /\ log' = Append(log, [rinfo |-> rinfo, parse |-> parse, escaped |-> r.escaped])
             /\ sent' = IF r.send THEN Append(sent, [to |-> rinfo, datagram |-> n]) ELSE sent
             /\ spc' = IF r.escaped THEN "crashed" ELSE "idle"
    /\ inbox' = inbox - 1
    /\ UNCHANGED << parserVars, factoryVars >>

InitServer ==
    /\ inbox = MaxDatagrams
    /\ spc = "idle"
    /\ sent = << >>
    /\ log = << >>
    /\ ParserIdle
    /\ FactoryIdle

NextServer == OnMessage

SpecServer == InitServer /\ [][NextServer]_vars

\* C9: when parsing a received datagram raises, the error stays inside
\* onMessage, nothing is sent for that datagram and the server handles the
\* datagrams that follow; whatever is sent answers a datagram that parsed.
C9_ParseErrorsDropped ==
    /\ \A i \in 1..Len(log) :
         log[i].parse = "error" =>
            /\ ~log[i].escaped
            /\ \A k \in 1..Len(sent) : sent[k].datagram # i
    /\ \A k \in 1..Len(sent) :
         /\ sent[k].datagram \in 1..Len(log)
         /\ log[sent[k].datagram].parse = "packet"
         /\ sent[k].to = log[sent[k].datagram].rinfo
    /\ (log # << >> /\ Last(log).parse = "error") => spc = "idle"
    /\ (spc = "idle" /\ inbox > 0) => ENABLED OnMessage
    /\ Len(log) = MaxDatagrams - inbox

\* a datagram that failed to parse was dropped and the next one answered
C9_Witness ==
    /\ Len(log) >= 2
    /\ log[1].parse = "error"
    /\ log[2].parse = "packet"
    /\ sent = << [to |-> log[2].rinfo, datagram |-> 2] >>

(***************************************************************************)
(* Properties of the compound-packet loop of HeaderParser.parse            *)
(***************************************************************************)
\* entry i is a long header that defines a payload length, and the length
\* covers at least the packet number that was read
DefinesLength(i) ==
    /\ headerOffsets[i].header.headerType = "LongHeader"
    /\ headerOffsets[i].header.payloadLength # << >>
    /\ headerOffsets[i].header.payloadLength[1] >= (ByteAt(starts[i]) % 4) + 1

\* where the packet of entry i ends: the payload length counts from the
\* packet number on, and offset lies after the packet number
PacketEnd(i) ==
    headerOffsets[i].offset - ((ByteAt(starts[i]) % 4) + 1)
      + headerOffsets[i].header.payloadLength[1]

\* C11: after a long header that defines a payload length, parse attempts
\* another header if and only if the end of that packet is strictly below
\* the buffer length (so also when 1 to 4 bytes remain), and it attempts no
\* header at or past the end of the buffer.
C11_NextHeaderIffInsideDatagram ==
    Finished =>
        /\ \A i \in 1..Len(headerOffsets) :
             DefinesLength(i) => ((i < Len(starts)) <=> (PacketEnd(i) < Len(buf)))
        /\ \A j \in 2..Len(starts) : starts[j] < Len(buf)

(***************************************************************************)
(* Error paths of PacketFactory.createInitialPacket                        *)
(***************************************************************************)
\* C12: createInitialPacket completes without raising an error of its own
\* for every frame sequence it is given, the empty sequence included (frame
\* size and serialization never fail in this model, so any throw is its own).
C12_NoErrorOfItsOwn ==
    /\ fpc # "thrown"
    /\ (fpc = "returned" /\ frames = << >>) => initial # << >>

(***************************************************************************)
(* Termination of HeaderParser.parse                                       *)
(***************************************************************************)
\* C13: parse terminates on every buffer: each further header of the
\* compound-packet loop is parsed at a start position strictly greater than
\* the start of the header before it (also after a long header announcing
\* payload length 0) and inside the buffer, so the number of loop iterations
\* is bounded by the buffer length, and a parse that has not returned or
\* thrown is at its first header or in the loop with a header parsed last,
\* where one of LoopParse, LoopBreak and LoopExit can always be taken.
C13_StartsStrictlyIncrease ==
    /\ \A j \in 2..Len(starts) : starts[j - 1] < starts[j] /\ starts[j] < Len(buf)
    /\ Len(starts) <= Len(buf) + 1
    /\ Len(headerOffsets) <= Len(starts)
    /\ Finished \/ pc = "parse" \/ (pc = "loop" /\ headerOffsets # << >>)

\* a finished parse that went on after a long header announcing length 0
C13_Witness ==
    /\ Finished
    /\ Len(starts) >= 2
    /\ \E i \in 1..Len(headerOffsets) :
         /\ i < Len(starts)
         /\ headerOffsets[i].header.headerType = "LongHeader"
         /\ headerOffsets[i].header.payloadLength = << 0 >>

====
